---- MODULE Spec2Model ----
(***************************************************************************)
(* The scene buffer packer and instanced render batcher of the LDraw       *)
(* viewer (src/ldraw_viewer.cpp): Sample::rebuildSceneBuffers,             *)
(* Sample::drawDebug and the frame logic of Sample::think / processUI.     *)
(*                                                                         *)
(* The loader library (ldr* functions) is an external collaborator.  It is *)
(* represented by the registry `parts` it exposes (ldrGetPart,             *)
(* ldrGetRenderPart) and by the outcome of each load, which is an input.   *)
(* The model is of a build with assert() compiled out (NDEBUG): a failed   *)
(* assert would end the program before any of the modelled steps.          *)
(* All element counts stay far below 2^32 within the bounds, so the        *)
(* uint32_t sums of the planner never wrap here.                           *)
(***************************************************************************)
EXTENDS Integers, Sequences, FiniteSets, TLC

\* ---------------------------------------------------------------- bounds
\* Number of parts registered in the loader (ldrGetNumRegisteredParts).
NumParts == 3
\* Largest number of instances of a resolved model.
MaxInstances == 2

\* The sentinel part id of an instance whose part did not resolve: all bits
\* set, which reads -1 once stored in an int (as line 518 does).
LDR_INVALID_ID == -1

PartIds == 0 .. (NumParts - 1)

\* ------------------------------------------------- part geometry source
\* A null LdrRenderPart pointer (ldrGetRenderPart returned nullptr).
NoRenderPart ==
  [present |-> FALSE, numVertices |-> 0, numTriangles |-> 0, numLines |-> 0,
   numTrianglesC |-> 0, triangleMaterials |-> FALSE, materialsC |-> FALSE,
   hasComplexMaterial |-> FALSE, canChamfer |-> FALSE]

RenderPart(nv, nt, nl, ntc, mats, matsC, cm, cc) ==
  [present |-> TRUE, numVertices |-> nv, numTriangles |-> nt, numLines |-> nl,
   numTrianglesC |-> ntc, triangleMaterials |-> mats, materialsC |-> matsC,
   hasComplexMaterial |-> cm, canChamfer |-> cc]

\* An LdrPart with the render part the loader built for it (or none).
\* triangleMaterials / materialsC say whether the array pointer is non-null.
Part(np, nt, nl, no, mats, cm, nocull, rp) ==
  [numPositions |-> np, numTriangles |-> nt, numLines |-> nl,
   numOptionalLines |-> no, triangleMaterials |-> mats,
   hasComplexMaterial |-> cm, hasNoBackFaceCulling |-> nocull, rpart |-> rp]

\* The kinds of parts a registry is drawn from.  Every count of a kind is
\* distinct from its neighbours so that a confusion of two fields shows.
PartKinds ==
  << \* plain brick: material array present but no complex-material flag;
     \* chamferable render part whose only material array is the chamfered one
     Part(4, 2, 3, 1, TRUE, FALSE, FALSE,
          RenderPart(6, 2, 3, 5, FALSE, TRUE, TRUE, TRUE)),
     \* printed part: complex material in both variants, not chamferable
     Part(3, 1, 2, 2, TRUE, TRUE, TRUE,
          RenderPart(5, 1, 2, 3, TRUE, TRUE, TRUE, FALSE)),
     \* part without render geometry; flag set but no material array
     Part(2, 1, 1, 1, FALSE, TRUE, FALSE, NoRenderPart),
     \* lines-only part: no triangles in either variant
     Part(2, 0, 1, 0, FALSE, FALSE, FALSE,
          RenderPart(2, 0, 1, 0, FALSE, FALSE, FALSE, TRUE)) >>

NumKinds == Len(PartKinds)

\* Every registry: each part id is of any kind.
Registries == [PartIds -> {PartKinds[k] : k \in 1 .. NumKinds}]

\* The registry that holds the kinds in catalogue order.
CatalogueRegistry == [i \in PartIds |-> PartKinds[(i % NumKinds) + 1]]

\* An LdrInstance: the part it places (or LDR_INVALID_ID) and the sign of the
\* determinant of its transform.  Instances places parts unmirrored,
\* SignedInstances mirrored ones too (a negative determinant).
Instances == [part : PartIds \cup {LDR_INVALID_ID}, det : {1}]

SignedInstances == [part : PartIds \cup {LDR_INVALID_ID}, det : {-1, 1}]

RECURSIVE SeqsUpTo(_, _)
SeqsUpTo(S, n) ==
  IF n = 0 THEN {<<>>}
  ELSE LET shorter == SeqsUpTo(S, n - 1)
       IN shorter \cup {Append(q, x) : q \in {r \in shorter : Len(r) = n - 1}, x \in S}

\* Every resolved model: an ordered instance list.
Models == SeqsUpTo(Instances, MaxInstances)

\* ------------------------------------------------------------------ state
VARIABLES
  pc,                      \* "constructed", "running" or "ended"
  parts,                   \* the registry of m_loader: part id -> LdrPart
  m_modelFilename,         \* TRUE iff the file name is not empty
  m_loaderCreateInfo,      \* [renderpartBuildMode, partFixMode]
  m_loaderCreateInfoLast,  \* the configuration m_loader was created with
  m_tweak,                 \* the Tweak record
  m_tweakLast,             \* its snapshot
  m_scene,                 \* Scene: model, renderModel, drawParts, buffers
  gl,                      \* the buffer uploads and draw calls issued
  hist,                    \* what the last passes did (history only)
  load                     \* the threaded load of initScene in progress

vars == <<pc, parts, m_modelFilename, m_loaderCreateInfo, m_loaderCreateInfoLast,
          m_tweak, m_tweakLast, m_scene, gl, hist, load>>

\* The program state as one record, so that the steps of a handler compose.
State ==
  [pc |-> pc, parts |-> parts, m_modelFilename |-> m_modelFilename,
   m_loaderCreateInfo |-> m_loaderCreateInfo,
   m_loaderCreateInfoLast |-> m_loaderCreateInfoLast,
   m_tweak |-> m_tweak, m_tweakLast |-> m_tweakLast, m_scene |-> m_scene,
   gl |-> gl, hist |-> hist, load |-> load]

Becomes(s) ==
  /\ pc' = s.pc
  /\ parts' = s.parts
  /\ m_modelFilename' = s.m_modelFilename
  /\ m_loaderCreateInfo' = s.m_loaderCreateInfo
  /\ m_loaderCreateInfoLast' = s.m_loaderCreateInfoLast
  /\ m_tweak' = s.m_tweak
  /\ m_tweakLast' = s.m_tweakLast
  /\ m_scene' = s.m_scene
  /\ gl' = s.gl
  /\ hist' = s.hist
  /\ load' = s.load

\* No threaded load in progress.
NoLoad ==
  [phase |-> "idle", numParts |-> 0, numThreads |-> 0, i |-> 0,
   partIds |-> << >>, errors |-> << >>, threads |-> << >>, writes |-> {},
   resolved |-> FALSE, result |-> FALSE, destroyedJoinable |-> {}]

\* The program is in state s.
Is(s) ==
  /\ pc = s.pc
  /\ parts = s.parts
  /\ m_modelFilename = s.m_modelFilename
  /\ m_loaderCreateInfo = s.m_loaderCreateInfo
  /\ m_loaderCreateInfoLast = s.m_loaderCreateInfoLast
  /\ m_tweak = s.m_tweak
  /\ m_tweakLast = s.m_tweakLast
  /\ m_scene = s.m_scene
  /\ gl = s.gl
  /\ hist = s.hist
  /\ load = s.load

\* A value-initialised DrawPart.
ZeroDrawPart ==
  [vertexCount |-> 0, vertexOffset |-> 0, triangleCount |-> 0, triangleOffset |-> 0,
   triangleCountC |-> 0, triangleOffsetC |-> 0, edgesCount |-> 0, edgesOffset |-> 0,
   optionalCount |-> 0, optionalOffset |-> 0, materialIDOffset |-> 0,
   materialIDOffsetC |-> 0]

NoModel == [loaded |-> FALSE, instances |-> <<>>]

\* Scene(): the default-constructed scene.
EmptyScene ==
  [model |-> NoModel, renderModel |-> FALSE, drawParts |-> <<>>,
   vertexBuffer |-> 0, indexBuffer |-> 0, materialIndexBuffer |-> 0]

\* No materialisation pass yet (or the scene was torn down since).
NoBuild ==
  [valid |-> FALSE, drawRenderPart |-> FALSE,
   createInfo |-> [renderpartBuildMode |-> FALSE, partFixMode |-> FALSE],
   instances |-> <<>>, activeParts |-> <<>>, counts |-> <<>>,
   drawParts |-> <<>>, vbo |-> 0, ibo |-> 0, mtl |-> 0, uploads |-> <<>>]

\* ------------------------------------------------------ loader interface
\* ldrGetNumRegisteredParts
NumRegisteredParts(s) == Cardinality(DOMAIN s.parts)

\* ldrGetPart
GetPart(s, id) == s.parts[id]

\* ldrGetRenderPart: render parts exist only in a loader created with
\* renderpartBuildMode = LDR_RENDERPART_BUILD_ONLOAD.
GetRenderPart(s, id) ==
  IF s.m_loaderCreateInfoLast.renderpartBuildMode
  THEN s.parts[id].rpart
  ELSE NoRenderPart

\* ---------------------------------------------------- rebuildSceneBuffers
\* A faulty selector, which C6 must tell from the code's: it takes the
\* invalid id for part 0.
ActivePartsInvalidAsZero(instances, numParts) ==
  [i \in 0 .. (numParts - 1) |->
     \E k \in DOMAIN instances :
       \/ instances[k].part = i
       \/ instances[k].part = LDR_INVALID_ID /\ i = 0]

\* Lines 744-750, the active-part selector after k instances.
RECURSIVE ActivePartsUpTo(_, _, _)
ActivePartsUpTo(instances, numParts, k) ==
  IF k = 0 THEN [i \in 0 .. (numParts - 1) |-> FALSE]
  ELSE LET before == ActivePartsUpTo(instances, numParts, k - 1)
           instance == instances[k]
       IN IF instance.part # LDR_INVALID_ID
          THEN [before EXCEPT ![instance.part] = TRUE]
          ELSE before

ActiveParts(instances, numParts) ==
  ActivePartsUpTo(instances, numParts, Len(instances))

\* Faulty counts, which C10 must tell from the code's: a part without render
\* geometry falls back to the counts of its source geometry.
PartCountsFallback(s, i) ==
  LET part == s.parts[i]
      rpart == IF s.m_loaderCreateInfoLast.renderpartBuildMode
               THEN s.parts[i].rpart ELSE NoRenderPart
      source == [vertexCount |-> part.numPositions,
                 triangleCount |-> part.numTriangles,
                 edgesCount |-> part.numLines,
                 optionalCount |-> part.numOptionalLines,
                 triangleCountC |-> 0,
                 materialIndexCount |->
                   IF part.triangleMaterials /\ part.hasComplexMaterial
                   THEN part.numTriangles ELSE 0,
                 materialIndexCountC |-> 0]
  IN IF ~s.m_tweak.drawRenderPart \/ ~rpart.present
     THEN source
     ELSE [vertexCount |-> rpart.numVertices,
           triangleCount |-> rpart.numTriangles,
           edgesCount |-> rpart.numLines,
           optionalCount |-> 0,
           triangleCountC |-> rpart.numTrianglesC,
           materialIndexCount |->
             IF rpart.triangleMaterials /\ rpart.hasComplexMaterial
             THEN rpart.numTriangles ELSE 0,
           materialIndexCountC |->
             IF rpart.materialsC /\ rpart.hasComplexMaterial
             THEN rpart.numTrianglesC ELSE 0]

\* Lines 764-797: the counts of part i in the selected variant, and the
\* sizes of its two material-id sub-regions.
PartCounts(s, i) ==
  LET part == GetPart(s, i)
      rpart == GetRenderPart(s, i)
  IN IF ~s.m_tweak.drawRenderPart
     THEN [vertexCount |-> part.numPositions,
           triangleCount |-> part.numTriangles,
           edgesCount |-> part.numLines,
           optionalCount |-> part.numOptionalLines,
           triangleCountC |-> 0,
           materialIndexCount |->
             IF part.triangleMaterials /\ part.hasComplexMaterial
             THEN part.numTriangles ELSE 0,
           materialIndexCountC |-> 0]
     ELSE IF rpart.present
     THEN [vertexCount |-> rpart.numVertices,
           triangleCount |-> rpart.numTriangles,
           edgesCount |-> rpart.numLines,
           optionalCount |-> 0,
           triangleCountC |-> rpart.numTrianglesC,
           materialIndexCount |->
             IF rpart.triangleMaterials /\ rpart.hasComplexMaterial
             THEN rpart.numTriangles ELSE 0,
           materialIndexCountC |->
             IF rpart.materialsC /\ rpart.hasComplexMaterial
             THEN rpart.numTrianglesC ELSE 0]
     ELSE [vertexCount |-> 0, triangleCount |-> 0, edgesCount |-> 0,
           optionalCount |-> 0, triangleCountC |-> 0,
           materialIndexCount |-> 0, materialIndexCountC |-> 0]

\* A faulty planner, which C1 must tell from the code's: the index total
\* advances by three per edge, while two indices per edge are stored.
PlanPartEdgesByThree(c, off) ==
  LET mtlC == off.mtl + c.materialIndexCount
      mtl2 == mtlC + c.materialIndexCountC
      edges == off.ibo + c.triangleCount * 3
      mtl3 == mtl2 + c.materialIndexCount
      optional == edges + c.edgesCount * 3
      trianglesC == optional + c.optionalCount * 2
  IN [drawPart |->
        [vertexCount |-> c.vertexCount, vertexOffset |-> off.vbo,
         triangleCount |-> c.triangleCount, triangleOffset |-> off.ibo,
         triangleCountC |-> c.triangleCountC, triangleOffsetC |-> trianglesC,
         edgesCount |-> c.edgesCount, edgesOffset |-> edges,
         optionalCount |-> c.optionalCount, optionalOffset |-> optional,
         materialIDOffset |-> off.mtl, materialIDOffsetC |-> mtlC],
      off |-> [vbo |-> off.vbo + c.vertexCount,
               ibo |-> trianglesC + c.triangleCountC * 3,
               mtl |-> mtl3]]

\* A faulty planner, which C3 must tell from the code's: the vertex total
\* advances by one vertex less than the part has, and the chamfered
\* material ids start where the primary ones do.
PlanPartOverlapping(c, off) ==
  LET mtlC == off.mtl + c.materialIndexCount
      mtl2 == mtlC + c.materialIndexCountC
      edges == off.ibo + c.triangleCount * 3
      mtl3 == mtl2 + c.materialIndexCount
      optional == edges + c.edgesCount * 2
      trianglesC == optional + c.optionalCount * 2
  IN [drawPart |->
        [vertexCount |-> c.vertexCount, vertexOffset |-> off.vbo,
         triangleCount |-> c.triangleCount, triangleOffset |-> off.ibo,
         triangleCountC |-> c.triangleCountC, triangleOffsetC |-> trianglesC,
         edgesCount |-> c.edgesCount, edgesOffset |-> edges,
         optionalCount |-> c.optionalCount, optionalOffset |-> optional,
         materialIDOffset |-> off.mtl, materialIDOffsetC |-> off.mtl],
      off |-> [vbo |-> off.vbo + (IF c.vertexCount > 0 THEN c.vertexCount - 1 ELSE 0),
               ibo |-> trianglesC + c.triangleCountC * 3,
               mtl |-> mtl3]]

\* A faulty planner, which C4 must tell from the code's: the optional lines
\* are placed before the edges.
PlanPartOptionalFirst(c, off) ==
  LET mtlC == off.mtl + c.materialIndexCount
      mtl2 == mtlC + c.materialIndexCountC
      optional == off.ibo + c.triangleCount * 3
      mtl3 == mtl2 + c.materialIndexCount
      edges == optional + c.optionalCount * 2
      trianglesC == edges + c.edgesCount * 2
  IN [drawPart |->
        [vertexCount |-> c.vertexCount, vertexOffset |-> off.vbo,
         triangleCount |-> c.triangleCount, triangleOffset |-> off.ibo,
         triangleCountC |-> c.triangleCountC, triangleOffsetC |-> trianglesC,
         edgesCount |-> c.edgesCount, edgesOffset |-> edges,
         optionalCount |-> c.optionalCount, optionalOffset |-> optional,
         materialIDOffset |-> off.mtl, materialIDOffsetC |-> mtlC],
      off |-> [vbo |-> off.vbo + c.vertexCount,
               ibo |-> trianglesC + c.triangleCountC * 3,
               mtl |-> mtl3]]

\* Lines 799-815: the offsets of one active part, given its counts c and the
\* running totals off, and the totals after it.  Line 808 adds
\* materialIndexCount to mtlOffset a second time.
PlanPart(c, off) ==
  LET mtlC == off.mtl + c.materialIndexCount                \* 802
      mtl2 == mtlC + c.materialIndexCountC                  \* 804
      edges == off.ibo + c.triangleCount * 3                \* 807
      mtl3 == mtl2 + c.materialIndexCount                   \* 808
      optional == edges + c.edgesCount * 2                  \* 811
      trianglesC == optional + c.optionalCount * 2          \* 813
  IN [drawPart |->
        [vertexCount |-> c.vertexCount, vertexOffset |-> off.vbo,
         triangleCount |-> c.triangleCount, triangleOffset |-> off.ibo,
         triangleCountC |-> c.triangleCountC, triangleOffsetC |-> trianglesC,
         edgesCount |-> c.edgesCount, edgesOffset |-> edges,
         optionalCount |-> c.optionalCount, optionalOffset |-> optional,
         materialIDOffset |-> off.mtl, materialIDOffsetC |-> mtlC],
      off |-> [vbo |-> off.vbo + c.vertexCount,
               ibo |-> trianglesC + c.triangleCountC * 3,
               mtl |-> mtl3]]

\* Faulty initial totals, which C5 must tell from the code's: a pass
\* carries on from the sizes of the buffers the pass before it created.
StaleOffsets(s) ==
  [vbo |-> s.m_scene.vertexBuffer, ibo |-> s.m_scene.indexBuffer,
   mtl |-> s.m_scene.materialIndexBuffer]

\* Lines 752-754: the running totals a pass starts from.
InitialOffsets(s) == [vbo |-> 0, ibo |-> 0, mtl |-> 0]

\* std::vector::resize: existing entries are kept, new ones are zero.
Resize(drawParts, n) ==
  [i \in 0 .. (n - 1) |-> IF i \in DOMAIN drawParts THEN drawParts[i] ELSE ZeroDrawPart]

\* Lines 752-816, the planner loop from part id i on.  plan holds the
\* DrawPart table and the running totals vboOffset, iboOffset, mtlOffset.
RECURSIVE PlanFrom(_, _, _, _)
PlanFrom(s, activeParts, i, plan) ==
  IF i >= NumRegisteredParts(s) THEN plan
  ELSE IF ~activeParts[i] THEN PlanFrom(s, activeParts, i + 1, plan)
  ELSE LET p == PlanPart(PartCounts(s, i), plan.off)
       IN PlanFrom(s, activeParts, i + 1,
                   [drawParts |-> [plan.drawParts EXCEPT ![i] = p.drawPart],
                    off |-> p.off])

\* One glNamedBufferSubData call: count elements of the named array of a
\* part written at element offset of a buffer.
Upload(buffer, offset, count, part, array) ==
  [buffer |-> buffer, offset |-> offset, count |-> count, part |-> part,
   array |-> array]

\* Lines 847-890: the uploads of active part i.
PartUploads(s, i, drawPart) ==
  LET part == GetPart(s, i)
      rpart == GetRenderPart(s, i)
  IN IF ~s.m_tweak.drawRenderPart
     THEN << Upload("vertex", drawPart.vertexOffset, drawPart.vertexCount, i, "positions"),
             Upload("index", drawPart.triangleOffset, drawPart.triangleCount * 3, i, "triangles"),
             Upload("index", drawPart.edgesOffset, drawPart.edgesCount * 2, i, "lines"),
             Upload("index", drawPart.optionalOffset, drawPart.optionalCount * 2, i, "optional_lines") >>
          \o (IF part.triangleMaterials /\ part.hasComplexMaterial
              THEN << Upload("material", drawPart.materialIDOffset, drawPart.triangleCount, i, "triangleMaterials") >>
              ELSE << >>)
     ELSE IF ~rpart.present THEN << >>
     ELSE << Upload("vertex", drawPart.vertexOffset, drawPart.vertexCount, i, "vertices"),
             Upload("index", drawPart.triangleOffset, drawPart.triangleCount * 3, i, "triangles"),
             Upload("index", drawPart.edgesOffset, drawPart.edgesCount * 2, i, "lines"),
             Upload("index", drawPart.triangleOffsetC, drawPart.triangleCountC * 3, i, "trianglesC") >>
          \o (IF rpart.triangleMaterials /\ rpart.hasComplexMaterial
              THEN << Upload("material", drawPart.materialIDOffset, drawPart.triangleCount, i, "triangleMaterials") >>
              ELSE << >>)
          \o (IF rpart.materialsC /\ rpart.hasComplexMaterial
              THEN << Upload("material", drawPart.materialIDOffsetC, drawPart.triangleCountC, i, "materialsC") >>
              ELSE << >>)

\* Lines 843-891, the upload loop from part id i on.
RECURSIVE UploadsFrom(_, _, _, _)
UploadsFrom(s, activeParts, drawParts, i) ==
  IF i >= NumRegisteredParts(s) THEN << >>
  ELSE IF ~activeParts[i] THEN UploadsFrom(s, activeParts, drawParts, i + 1)
  ELSE PartUploads(s, i, drawParts[i]) \o UploadsFrom(s, activeParts, drawParts, i + 1)

\* Neither handle of the scene is set.
NoOwner == [model |-> "none", renderModel |-> "none"]

\* A call that takes m_loader together with the scene's handles, or that
\* destroys the loader: the state of m_loader ("null", "live" or
\* "destroyed") and, for each handle, whether it is null ("none"), was
\* created by the loader passed ("current") or by a loader since destroyed
\* ("orphaned").
HandleEvent(s, op) ==
  [op |-> op, loader |-> s.hist.loader, model |-> s.hist.owner.model,
   renderModel |-> s.hist.owner.renderModel]

\* Sample::rebuildSceneBuffers.  The three buffers are created anew and get
\* storage of the grand totals (no storage for a total of 0).
RebuildSceneBuffers(s) ==
  IF ~s.m_scene.model.loaded
  THEN [s EXCEPT !.hist.calls = Append(@, "rebuildSceneBuffers")]
  ELSE
    LET numParts == NumRegisteredParts(s)
        instances == s.m_scene.model.instances
        activeParts == ActiveParts(instances, numParts)
        plan == PlanFrom(s, activeParts, 0,
                         [drawParts |-> Resize(s.m_scene.drawParts, numParts),
                          off |-> InitialOffsets(s)])
        uploads == UploadsFrom(s, activeParts, plan.drawParts, 0)
        build == [valid |-> TRUE,
                  drawRenderPart |-> s.m_tweak.drawRenderPart,
                  createInfo |-> s.m_loaderCreateInfoLast,
                  instances |-> instances,
                  activeParts |-> activeParts,
                  counts |-> [i \in 0 .. (numParts - 1) |-> PartCounts(s, i)],
                  drawParts |-> plan.drawParts,
                  vbo |-> plan.off.vbo, ibo |-> plan.off.ibo, mtl |-> plan.off.mtl,
                  uploads |-> uploads]
    IN [s EXCEPT
          !.m_scene.drawParts = plan.drawParts,
          !.m_scene.vertexBuffer = plan.off.vbo,
          !.m_scene.indexBuffer = plan.off.ibo,
          !.m_scene.materialIndexBuffer = plan.off.mtl,
          !.gl.uploads = uploads,
          !.hist.calls = @ \o <<"rebuildSceneBuffers", "select", "plan", "materialize">>,
          !.hist.handles = Append(@, HandleEvent(s, "use")),
          !.hist.passes = IF @ < 2 THEN @ + 1 ELSE @,
          !.hist.build = build,
          !.hist.builtSinceLoad = TRUE]

\* ---------------------------------------------------------------- drawDebug
\* One glDrawElementsBaseVertex call of instance index i (0-based): count
\* indices read from element offset first of the index buffer.
DrawCall(kind, i, part, count, first, baseVertex, materialIDOffset) ==
  [op |-> "draw", kind |-> kind, instance |-> i, part |-> part, count |-> count,
   first |-> first, baseVertex |-> baseVertex, materialIDOffset |-> materialIDOffset]

\* glUniform1ui(UNI_MATERIALIDOFFSET, ~0): no per-triangle materials.
NoMaterialIDOffset == -1

\* m_scene.drawParts[id] as drawDebug reads it (line 967).  The vector is
\* empty when no pass ran since the scene was torn down; what a read past its
\* end yields is not defined, and junk stands for it.
DrawPartAt(s, id, junk) ==
  IF id \in DOMAIN s.m_scene.drawParts THEN s.m_scene.drawParts[id] ELSE junk

\* What a read past the end of the DrawPart table may yield.
JunkDrawParts ==
  {ZeroDrawPart,
   [ZeroDrawPart EXCEPT !.vertexOffset = 7, !.triangleOffset = 11, !.edgesOffset = 13]}

\* One call that sets GL state: glFrontFace, glLineWidth, glPolygonMode,
\* glEnable or glDisable of a capability, on behalf of instance i (-1 for the
\* calls before and after the instance loop).
GLCall(op, i, value) == [op |-> op, instance |-> i, value |-> value]

\* float lineWidthScale = 2.0f; float lineWidthBase = 1.0f (lines 921-922).
lineWidthScale == 2

lineWidthBase == 1

\* A faulty choice, which C17 must tell from the code's: the toggle alone
\* decides.
UseChamferToggleOnly(s, rpart) == s.m_tweak.chamfered

\* Lines 1044-1048: TRUE iff the draws of a render part use its chamfered
\* triangles.
UseChamfer(s, rpart) == s.m_tweak.chamfered /\ rpart.canChamfer

\* Lines 1001-1082: the triangle, edge, optional-line and wireframe draws of
\* instance i of a part that passed the filters, with the line-width and
\* polygon-mode calls among them.
InstanceDraws(s, i, id, junk) ==
  LET part == GetPart(s, id)
      rpart == GetRenderPart(s, id)
      drawPart == DrawPartAt(s, id, junk)
      tw == s.m_tweak
  IN IF ~tw.drawRenderPart
     THEN LET mtl == IF part.triangleMaterials /\ part.hasComplexMaterial
                     THEN drawPart.materialIDOffset ELSE NoMaterialIDOffset
          IN (IF tw.triangles
              THEN << DrawCall("triangles", i, id, part.numTriangles * 3,
                               drawPart.triangleOffset, drawPart.vertexOffset, mtl) >>
              ELSE << >>)
             \o (IF tw.edges
                 THEN << GLCall("glLineWidth", i, lineWidthBase * lineWidthScale),
                         DrawCall("edges", i, id, part.numLines * 2,
                                  drawPart.edgesOffset, drawPart.vertexOffset,
                                  NoMaterialIDOffset) >>
                 ELSE << >>)
             \o (IF tw.optional
                 THEN << GLCall("glLineWidth", i, lineWidthBase * lineWidthScale),
                         DrawCall("optional", i, id, part.numOptionalLines * 2,
                                  drawPart.optionalOffset, drawPart.vertexOffset,
                                  NoMaterialIDOffset) >>
                 ELSE << >>)
             \o (IF tw.wireframe
                 THEN << GLCall("glLineWidth", i, lineWidthBase),
                         GLCall("glPolygonMode", i, "GL_LINE"),
                         DrawCall("wireframe", i, id, part.numTriangles * 3,
                                  drawPart.triangleOffset, drawPart.vertexOffset,
                                  NoMaterialIDOffset),
                         GLCall("glPolygonMode", i, "GL_FILL") >>
                 ELSE << >>)
     ELSE IF rpart.present
     THEN LET chamfer == UseChamfer(s, rpart)
              triangles == IF chamfer THEN drawPart.triangleOffsetC
                           ELSE drawPart.triangleOffset
              numTriangles == IF chamfer THEN rpart.numTrianglesC
                              ELSE rpart.numTriangles
              triangleMaterials == IF chamfer THEN rpart.materialsC
                                   ELSE rpart.triangleMaterials
              material_offset == IF chamfer THEN drawPart.materialIDOffsetC
                                 ELSE drawPart.materialIDOffset
              mtl == IF triangleMaterials /\ rpart.hasComplexMaterial
                     THEN material_offset ELSE NoMaterialIDOffset
          IN (IF tw.triangles
              THEN << DrawCall("triangles", i, id, numTriangles * 3, triangles,
                               drawPart.vertexOffset, mtl) >>
              ELSE << >>)
             \o (IF tw.edges
                 THEN << GLCall("glLineWidth", i, lineWidthBase * lineWidthScale),
                         DrawCall("edges", i, id, rpart.numLines * 2,
                                  drawPart.edgesOffset, drawPart.vertexOffset,
                                  NoMaterialIDOffset) >>
                 ELSE << >>)
             \o (IF tw.wireframe
                 THEN << GLCall("glLineWidth", i, lineWidthBase),
                         GLCall("glPolygonMode", i, "GL_LINE"),
                         DrawCall("wireframe", i, id, numTriangles * 3, triangles,
                                  drawPart.vertexOffset, NoMaterialIDOffset),
                         GLCall("glPolygonMode", i, "GL_FILL") >>
                 ELSE << >>)
     ELSE << >>

\* Lines 1084-1106: the debug-selection draws of instance i: the selected
\* vertex as a point (glDrawArrays), the selected triangle as a line loop
\* and the selected edge as a line.
SelectionDraws(s, i, id, junk) ==
  LET drawPart == DrawPartAt(s, id, junk)
      tw == s.m_tweak
  IN IF id # tw.part THEN << >>
     ELSE (IF tw.vertex >= 0
           THEN << DrawCall("selected_vertex", i, id, 1,
                            tw.vertex + drawPart.vertexOffset, 0, NoMaterialIDOffset) >>
           ELSE << >>)
          \o (IF tw.tri >= 0
              THEN << GLCall("glLineWidth", i, lineWidthBase * 3 * lineWidthScale),
                      DrawCall("selected_tri", i, id, 3,
                               drawPart.triangleOffset + tw.tri * 3,
                               drawPart.vertexOffset, NoMaterialIDOffset) >>
              ELSE << >>)
          \o (IF tw.edge >= 0
              THEN << GLCall("glLineWidth", i, lineWidthBase * 2 * lineWidthScale),
                      DrawCall("selected_edge", i, id, 2,
                               drawPart.edgesOffset + tw.edge * 2,
                               drawPart.vertexOffset, NoMaterialIDOffset) >>
              ELSE << >>)

\* Lines 986-994: the cull-face call of an instance, if any, given the
\* locally tracked cullFace.
WantCull(s, id) == ~(GetPart(s, id).hasNoBackFaceCulling \/ ~s.m_tweak.cull)

\* A faulty cull update, which C14 must tell from the code's: the two
\* calls are swapped.
CullCallsSwapped(s, i, id, cullFace) ==
  IF cullFace # WantCull(s, id)
  THEN << [op |-> IF cullFace THEN "glEnable(GL_CULL_FACE)" ELSE "glDisable(GL_CULL_FACE)",
           instance |-> i] >>
  ELSE << >>

\* A faulty cull update, which C15 must tell from the code's: the wanted
\* state is set for every instance, changed or not.
CullCallsAlways(s, i, id, cullFace) ==
  << [op |-> IF WantCull(s, id) THEN "glEnable(GL_CULL_FACE)" ELSE "glDisable(GL_CULL_FACE)",
      instance |-> i] >>

CullCalls(s, i, id, cullFace) ==
  IF cullFace # WantCull(s, id)
  THEN << [op |-> IF cullFace THEN "glDisable(GL_CULL_FACE)" ELSE "glEnable(GL_CULL_FACE)",
           instance |-> i] >>
  ELSE << >>

\* A faulty front-face update, which C13 must tell from the code's: the
\* winding is not flipped for a negative determinant.
FrontFaceCallsUnflipped(i, det, ccw) ==
  IF ccw # (det > 0)
  THEN << GLCall("glFrontFace", i, "GL_CCW") >>
  ELSE << >>

\* Lines 996-999: the front-face call of an instance, if any, given the
\* locally tracked ccw and the determinant det of the instance's transform.
FrontFaceCalls(i, det, ccw) ==
  IF ccw # (det > 0)
  THEN << GLCall("glFrontFace", i, IF det > 0 THEN "GL_CCW" ELSE "GL_CW") >>
  ELSE << >>

\* ldrGetPart returns null for an id that names no registered part.
HasPart(s, id) == id \in DOMAIN s.parts

\* A faulty filter, which C18 must tell from the code's: a part is drawn for
\* its first instance only.
SkippedRepeats(s, i, id) ==
  \/ s.m_tweak.instance >= 0 /\ i # s.m_tweak.instance
  \/ ~HasPart(s, id)
  \/ s.m_tweak.part >= 0 /\ id # s.m_tweak.part
  \/ \E j \in 1 .. i : s.m_scene.model.instances[j].part = id

\* Lines 969-973: TRUE iff the instance loop skips instance i (0-based).
Skipped(s, i, id) ==
  \/ s.m_tweak.instance >= 0 /\ i # s.m_tweak.instance
  \/ ~HasPart(s, id)
  \/ s.m_tweak.part >= 0 /\ id # s.m_tweak.part

\* Lines 963-1107, the instance loop from the k-th instance on (k from 1),
\* with the locally tracked cullFace and ccw: the uniform-payload update,
\* the state-setting calls and the draws it issues, in order.  Uniform,
\* stipple and polygon-offset calls are not part of this trace.
RECURSIVE DrawFrom(_, _, _, _, _)
DrawFrom(s, k, cullFace, ccw, junk) ==
  LET instances == s.m_scene.model.instances IN
  IF k > Len(instances) THEN << >>
  ELSE LET id == instances[k].part
           det == instances[k].det
           i == k - 1
       IN IF Skipped(s, i, id) THEN DrawFrom(s, k + 1, cullFace, ccw, junk)
          ELSE << [op |-> "glBufferSubData(objectBuffer)", instance |-> i] >>
               \o CullCalls(s, i, id, cullFace)
               \o FrontFaceCalls(i, det, ccw)
               \o InstanceDraws(s, i, id, junk)
               \o SelectionDraws(s, i, id, junk)
               \o DrawFrom(s, k + 1, WantCull(s, id), det > 0, junk)

\* Lines 899-938: the state drawDebug sets before the instance loop.
DrawPrologue(s) ==
  << [op |-> "glEnable(GL_CULL_FACE)", instance |-> -1],
     GLCall("glFrontFace", -1, "GL_CCW"),
     GLCall("glLineWidth", -1, lineWidthBase),
     IF s.m_tweak.transparency # 0
     THEN [op |-> "glEnable(GL_BLEND)", instance |-> -1]
     ELSE [op |-> "glDisable(GL_BLEND)", instance |-> -1] >>

\* Lines 1109-1128: the state drawDebug resets after the instance loop.
DrawEpilogue ==
  << [op |-> "glDisable(GL_CULL_FACE)", instance |-> -1],
     GLCall("glPolygonMode", -1, "GL_FILL"),
     GLCall("glLineWidth", -1, 1) >>

\* Line 968: the ids the instance loop indexes m_scene.drawParts with, one
\* for each instance and before any filter.  An id outside the table is
\* undefined behaviour of std::vector::operator[]: a build with checked
\* containers aborts there, others form a reference that a skipped instance
\* never reads; the trace below is that of the builds that go on.
IndexedIds(s) ==
  [k \in DOMAIN s.m_scene.model.instances |-> s.m_scene.model.instances[k].part]

\* Sample::drawDebug
DrawDebug(s, junk) ==
  IF ~s.m_scene.model.loaded
  THEN [s EXCEPT !.hist.calls = Append(@, "drawDebug")]
  ELSE [s EXCEPT !.gl.draws = DrawPrologue(s) \o DrawFrom(s, 1, TRUE, TRUE, junk)
                              \o DrawEpilogue,
                 !.hist.calls = Append(@, "drawDebug"),
                 !.hist.indexed = IndexedIds(s),
                 !.hist.handles = Append(@, HandleEvent(s, "use")),
                 !.hist.drewModel = TRUE]

\* ------------------------------------------------------- scene lifecycle
\* The outcomes of a load: success (LDR_SUCCESS or
\* LDR_WARNING_PART_NOT_FOUND throughout), ldrCreateModel failing, or
\* ldrCreateRenderModel failing.
LoadOutcomes == {"ok", "createModelFailed", "createRenderModelFailed"}

\* Sample::deinitScene: ldrDestroyModel and ldrDestroyRenderModel with
\* m_loader, then m_scene = Scene().
DeinitScene(s) ==
  [s EXCEPT !.m_scene = EmptyScene,
            !.gl.uploads = << >>,
            !.hist.calls = Append(@, "deinitScene"),
            !.hist.handles = Append(@, HandleEvent(s, "deinitScene")),
            !.hist.owner = NoOwner,
            !.hist.build = NoBuild,
            !.hist.passes = 0]

\* ldrDestroyLoader(m_loader) of lines 369 and 448: a handle the loader
\* created and the scene still holds is orphaned.
LdrDestroyLoader(s) ==
  LET Orphaned(owner) == IF owner = "current" THEN "orphaned" ELSE owner
  IN [s EXCEPT !.hist.handles = Append(@, HandleEvent(s, "ldrDestroyLoader")),
               !.hist.loader = IF @ = "live" THEN "destroyed" ELSE @,
               !.hist.owner = [model |-> Orphaned(@.model),
                               renderModel |-> Orphaned(@.renderModel)]]

\* Sample::resetLoader (ldrCreateLoader succeeding)
ResetLoader(s) ==
  [LdrDestroyLoader(s) EXCEPT
     !.m_loaderCreateInfoLast = s.m_loaderCreateInfo,
     !.hist.loader = "live",
     !.hist.calls = Append(@, "resetLoader")]

\* Sample::initScene without threaded load: the state after it and the value
\* it returns.  outcome and instances are what the loader makes of the file.
\* A failing ldrCreateModel or ldrCreateRenderModel leaves its handle null.
InitScene(s, outcome, instances) ==
  LET called == [s EXCEPT !.hist.calls = Append(@, "initScene"),
                          !.hist.builtSinceLoad = FALSE]
  IN IF ~s.m_modelFilename
     THEN [state |-> [called EXCEPT !.hist.lastLoad = "ok"], result |-> TRUE]
     ELSE IF outcome = "createModelFailed"
     THEN [state |-> [called EXCEPT !.hist.lastLoad = "failed"], result |-> FALSE]
     ELSE LET loaded == [called EXCEPT
                           !.m_scene.model = [loaded |-> TRUE, instances |-> instances],
                           !.hist.owner.model = "current"]
          IN IF ~s.m_loaderCreateInfo.renderpartBuildMode
             THEN [state |-> [loaded EXCEPT !.hist.lastLoad = "ok"], result |-> TRUE]
             ELSE IF outcome = "createRenderModelFailed"
             THEN [state |-> [loaded EXCEPT !.hist.lastLoad = "failed"], result |-> FALSE]
             ELSE [state |-> [loaded EXCEPT !.m_scene.renderModel = TRUE,
                                            !.hist.owner.renderModel = "current",
                                            !.hist.lastLoad = "ok"],
                   result |-> TRUE]

\* A faulty resetScene, which C21 must tell from the code's: the loader is
\* reset with the scene still in place.
ResetSceneKeepingScene(s, outcome, instances) ==
  LET init == InitScene(ResetLoader(s), outcome, instances)
  IN IF init.result THEN RebuildSceneBuffers(init.state) ELSE init.state

\* Sample::resetScene
ResetScene(s, outcome, instances) ==
  LET init == InitScene(ResetLoader(DeinitScene(s)), outcome, instances)
  IN IF init.result THEN RebuildSceneBuffers(init.state) ELSE init.state

\* What a frame or begin() records about itself.
NoFrame ==
  [reachedDraw |-> FALSE, createInfoDiffers |-> FALSE,
   drawRenderPartDiffers |-> FALSE, chamferedDiffers |-> FALSE]

StartHandler(s) ==
  [s EXCEPT !.hist.calls = << >>, !.hist.frame = NoFrame, !.hist.drewModel = FALSE,
            !.hist.indexed = << >>, !.hist.handles = << >>,
            !.gl.draws = << >>]

\* Sample::begin; programsValid is what initProgram returns.
BeginOf(s, programsValid, outcome, instances) ==
  LET reset == ResetLoader(StartHandler(s))
      init == IF programsValid THEN InitScene(reset, outcome, instances)
              ELSE [state |-> reset, result |-> FALSE]
      built == RebuildSceneBuffers(init.state)
  IN [built EXCEPT !.m_tweakLast = built.m_tweak,
                   !.pc = IF init.result THEN "running" ELSE "ended"]

\* The widgets of processUI a frame may operate (at most one per frame).
UIEvents ==
  {"none", "LOAD", "RELOAD", "drawRenderPart", "chamfered",
   "renderpartBuildMode", "partFixMode"}

\* The InputInt widgets of the debug selection (lines 504-508).
SelectionWidgets == {"instance", "part", "vertex", "tri", "edge"}

\* TRUE iff the widget is shown (lines 491 and 500).
UIShown(s, ui) ==
  /\ ui \in {"drawRenderPart", "chamfered"}
       => s.m_scene.model.loaded /\ s.m_scene.renderModel
  /\ ui \in SelectionWidgets => s.m_scene.model.loaded

\* A uint32_t, kept as two 16-bit halves: the integers of the checker are
\* 32 bits wide and signed.
Half == 65536

\* (uint32_t)x of an int x.
ToU32(x) == [hi |-> (x \div Half) % Half, lo |-> x % Half]

\* u - 1 in uint32_t arithmetic: 0 - 1 is 0xFFFFFFFF.
U32Dec(u) ==
  IF u.lo > 0 THEN [u EXCEPT !.lo = @ - 1]
  ELSE [hi |-> (u.hi - 1) % Half, lo |-> Half - 1]

\* std::min of two uint32_t.
U32Min(a, b) ==
  IF a.hi < b.hi \/ (a.hi = b.hi /\ a.lo <= b.lo) THEN a ELSE b

\* The int a uint32_t converts to (two's complement).
ToInt(u) ==
  IF u.hi < Half \div 2 THEN u.hi * Half + u.lo
  ELSE (u.hi - Half) * Half + u.lo

\* index = std::min((uint32_t)index, count - 1), as lines 517, 525, 533, 539,
\* 555, 561, 579 and 585 compute it for a uint32_t count.
ClampIndex(index, count) == ToInt(U32Min(ToU32(index), U32Dec(ToU32(count))))

\* Lines 510-589: the clamping of the debug selection.  stray is what the
\* read of instances[m_tweak.instance].part at line 518 yields when the index
\* lies past the end of the array.  The element reads of lines 534-587 feed
\* text widgets only.
ClampSelection(s, stray) ==
  LET tw == s.m_tweak
      AtLeastNone(x) == IF x < -1 THEN -1 ELSE x
      instances == s.m_scene.model.instances
      variant == s.m_scene.renderModel /\ tw.drawRenderPart
      instance == IF AtLeastNone(tw.instance) >= 0
                  THEN ClampIndex(tw.instance, Len(instances))
                  ELSE AtLeastNone(tw.instance)
      ofInstance == IF instance >= 0
                    THEN IF instance < Len(instances)
                         THEN instances[instance + 1].part ELSE stray
                    ELSE IF s.m_tweakLast.instance >= 0 THEN -1
                    ELSE AtLeastNone(tw.part)
      part == IF ofInstance >= 0 THEN ClampIndex(ofInstance, NumParts)
              ELSE ofInstance
      Clamped(x, renderCount, sourceCount) ==
        IF part >= 0 /\ AtLeastNone(x) >= 0
        THEN IF variant
             THEN IF GetRenderPart(s, part).present
                  THEN ClampIndex(x, GetRenderPart(s, part)[renderCount])
                  ELSE x
             ELSE ClampIndex(x, GetPart(s, part)[sourceCount])
        ELSE AtLeastNone(x)
  IN [s EXCEPT !.m_tweak.instance = instance,
               !.m_tweak.part = part,
               !.m_tweak.tri = Clamped(tw.tri, "numTriangles", "numTriangles"),
               !.m_tweak.edge = Clamped(tw.edge, "numLines", "numLines"),
               !.m_tweak.vertex = Clamped(tw.vertex, "numVertices", "numPositions")]

\* Sample::processUI: the widget operated (lines 477-508 and 629-636; value
\* is what an InputInt widget is set to), then the clamping under the
\* render-settings header of line 491.
ProcessUI(s, ui, outcome, instances, value, stray) ==
  LET operated ==
        CASE ui = "LOAD" ->
               RebuildSceneBuffers(
                 InitScene(ResetLoader(DeinitScene([s EXCEPT !.m_modelFilename = TRUE])),
                           outcome, instances).state)
          [] ui = "RELOAD" -> ResetScene(s, outcome, instances)
          [] ui = "drawRenderPart" -> [s EXCEPT !.m_tweak.drawRenderPart = ~@]
          [] ui = "chamfered" -> [s EXCEPT !.m_tweak.chamfered = ~@]
          [] ui = "renderpartBuildMode" ->
               [s EXCEPT !.m_loaderCreateInfo.renderpartBuildMode = ~@]
          [] ui = "partFixMode" -> [s EXCEPT !.m_loaderCreateInfo.partFixMode = ~@]
          [] ui \in SelectionWidgets -> [s EXCEPT !.m_tweak[ui] = value]
          [] OTHER -> s
  IN IF operated.m_scene.model.loaded THEN ClampSelection(operated, stray)
     ELSE operated

\* tweakChanged(m_tweak.<field>)
TweakChanged(s, field) == s.m_tweak[field] # s.m_tweakLast[field]

\* A faulty think, which C8 must tell from the code's: a change of the
\* chamfer toggle alone does not rebuild.
RevalidateIgnoringChamfer(s, outcome, instances) ==
  LET createInfoDiffers ==
        \/ s.m_loaderCreateInfoLast # s.m_loaderCreateInfo
        \/ s.m_tweak.threadedLoad # s.m_tweakLast.threadedLoad
      reloaded == IF createInfoDiffers
                  THEN InitScene(ResetLoader(DeinitScene(s)), outcome, instances).state
                  ELSE s
      forced == IF ~reloaded.m_scene.renderModel
                THEN [reloaded EXCEPT !.m_tweak.drawRenderPart = FALSE]
                ELSE reloaded
      noted == [forced EXCEPT !.hist.frame =
                  [reachedDraw |-> TRUE,
                   createInfoDiffers |-> createInfoDiffers,
                   drawRenderPartDiffers |->
                     forced.m_tweak.drawRenderPart # forced.m_tweakLast.drawRenderPart,
                   chamferedDiffers |->
                     forced.m_tweak.chamfered # forced.m_tweakLast.chamfered]]
  IN IF \/ createInfoDiffers
        \/ forced.m_tweak.drawRenderPart # forced.m_tweakLast.drawRenderPart
     THEN RebuildSceneBuffers(noted)
     ELSE noted

\* Lines 692-705: the reload and rebuild that think decides on.
Revalidate(s, outcome, instances) ==
  LET createInfoDiffers ==
        \/ s.m_loaderCreateInfoLast # s.m_loaderCreateInfo
        \/ TweakChanged(s, "threadedLoad")
      reloaded == IF createInfoDiffers
                  THEN InitScene(ResetLoader(DeinitScene(s)), outcome, instances).state
                  ELSE s
      forced == IF ~reloaded.m_scene.renderModel
                THEN [reloaded EXCEPT !.m_tweak.drawRenderPart = FALSE]
                ELSE reloaded
      noted == [forced EXCEPT !.hist.frame =
                  [reachedDraw |-> TRUE,
                   createInfoDiffers |-> createInfoDiffers,
                   drawRenderPartDiffers |-> TweakChanged(forced, "drawRenderPart"),
                   chamferedDiffers |-> TweakChanged(forced, "chamfered")]]
  IN IF \/ createInfoDiffers
        \/ TweakChanged(forced, "chamfered")
        \/ TweakChanged(forced, "drawRenderPart")
     THEN RebuildSceneBuffers(noted)
     ELSE noted

\* Lines 707-727: the draw step and the snapshot that ends a frame.
DrawAndSnapshot(s, junk) ==
  LET drawn == DrawDebug(s, junk)
  IN [drawn EXCEPT !.m_tweakLast = drawn.m_tweak]

\* Sample::end
EndOf(s) ==
  [LdrDestroyLoader(DeinitScene(StartHandler(s))) EXCEPT !.pc = "ended"]

\* ------------------------------------------------------------ the program
CreateInfos == [renderpartBuildMode : BOOLEAN, partFixMode : BOOLEAN]

\* Tweak's default member initialisers (lines 116-132).
DefaultTweak ==
  [cull |-> TRUE, drawRenderPart |-> FALSE, edges |-> FALSE, triangles |-> TRUE,
   chamfered |-> FALSE, wireframe |-> TRUE, optional |-> FALSE, transparency |-> 0,
   instance |-> -1, part |-> -1, tri |-> -1, vertex |-> -1, edge |-> -1,
   threadedLoad |-> FALSE]

NoHistory ==
  [calls |-> << >>, frame |-> NoFrame, drewModel |-> FALSE, build |-> NoBuild,
   passes |-> 0, builtSinceLoad |-> FALSE, lastLoad |-> "none", indexed |-> << >>,
   loader |-> "null", owner |-> NoOwner, handles |-> << >>]

\* The history of a scene that the live loader has loaded.
LoadedHistory ==
  [NoHistory EXCEPT !.lastLoad = "ok", !.loader = "live",
                    !.owner = [model |-> "current", renderModel |-> "current"]]

\* The state after the constructor and the command line: the file name, the
\* loader configuration and the two render-part toggles are parameters.
Init ==
  /\ pc = "constructed"
  /\ parts = CatalogueRegistry
  /\ m_modelFilename \in BOOLEAN
  /\ m_loaderCreateInfo \in CreateInfos
  /\ m_loaderCreateInfoLast = [renderpartBuildMode |-> FALSE, partFixMode |-> FALSE]
  /\ \E drp \in BOOLEAN, ch \in BOOLEAN :
       m_tweak = [DefaultTweak EXCEPT !.drawRenderPart = drp, !.chamfered = ch]
  /\ m_tweakLast = DefaultTweak
  /\ m_scene = EmptyScene
  /\ gl = [uploads |-> << >>, draws |-> << >>]
  /\ hist = NoHistory
  /\ load = NoLoad

\* The models a file of the lifecycle may resolve to: the empty model, one
\* that places the parts in turn, and that one with its last part missing.
FileModels ==
  LET inTurn == [k \in 1 .. MaxInstances |-> [part |-> (k - 1) % NumParts, det |-> 1]]
  IN {<< >>, inTurn,
      [inTurn EXCEPT ![MaxInstances] = [part |-> LDR_INVALID_ID, det |-> 1]]}

\* TRUE iff a frame with this widget operated loads a model: LOAD, RELOAD,
\* or a configuration that differs from the loader's once the UI has run.
Loads(s, ui, programsValid) ==
  \/ ui \in {"LOAD", "RELOAD"}
  \/ /\ programsValid
     /\ \/ s.m_loaderCreateInfo # s.m_loaderCreateInfoLast
        \/ ui \in {"renderpartBuildMode", "partFixMode"}

Begin ==
  /\ pc = "constructed"
  /\ \E programsValid \in BOOLEAN :
       \E outcome \in (IF programsValid /\ m_modelFilename THEN LoadOutcomes ELSE {"ok"}),
          instances \in (IF programsValid /\ m_modelFilename THEN FileModels ELSE {<< >>}) :
         Becomes(BeginOf(State, programsValid, outcome, instances))

\* Sample::think.  Each frame operates at most one widget; programsValid is
\* what areProgramsValid returns, and a frame with invalid programs returns
\* at line 660.
Think ==
  /\ pc = "running"
  /\ \E ui \in UIEvents, programsValid \in BOOLEAN :
       /\ UIShown(State, ui)
       /\ LET loads == Loads(State, ui, programsValid) IN
          \E outcome \in (IF loads THEN LoadOutcomes ELSE {"ok"}),
             instances \in (IF loads THEN FileModels ELSE {<< >>}) :
            LET afterUI == ProcessUI(StartHandler(State), ui, outcome, instances, -1, -1) IN
            IF ~programsValid THEN Becomes(afterUI)
            ELSE LET pre == Revalidate(afterUI, outcome, instances)
                     unbuilt == /\ pre.m_scene.model.loaded
                                /\ DOMAIN pre.m_scene.drawParts = {}
                 IN \E junk \in (IF unbuilt THEN JunkDrawParts ELSE {ZeroDrawPart}) :
                      Becomes(DrawAndSnapshot(pre, junk))

End ==
  /\ pc = "running"
  /\ Becomes(EndOf(State))

Next == Begin \/ Think \/ End

Spec == Init /\ [][Next]_vars

\* ------------------------------------------------- the packer on its own
\* Any scene right after a successful initScene, before the first pass: any
\* registry, any model, either variant, every kind of draw switched on.
SceneInit ==
  /\ pc = "running"
  /\ parts \in Registries
  /\ m_modelFilename = TRUE
  /\ m_loaderCreateInfo = [renderpartBuildMode |-> TRUE, partFixMode |-> FALSE]
  /\ m_loaderCreateInfoLast = m_loaderCreateInfo
  /\ \E drp \in BOOLEAN :
       m_tweak = [DefaultTweak EXCEPT !.drawRenderPart = drp, !.edges = TRUE,
                                      !.optional = TRUE]
  /\ m_tweakLast = m_tweak
  /\ \E instances \in Models :
       m_scene = [EmptyScene EXCEPT
                    !.model = [loaded |-> TRUE, instances |-> instances],
                    !.renderModel = m_loaderCreateInfo.renderpartBuildMode]
  /\ gl = [uploads |-> << >>, draws |-> << >>]
  /\ hist = LoadedHistory
  /\ load = NoLoad

\* A call of rebuildSceneBuffers.
Rebuild ==
  Becomes(RebuildSceneBuffers(StartHandler(State)))

\* A call of drawDebug, once a pass has run.
Draw ==
  /\ hist.build.valid
  /\ Becomes(DrawDebug(StartHandler(State), ZeroDrawPart))

SceneNext == Rebuild \/ Draw

SpecScene == SceneInit /\ [][SceneNext]_vars

\* ------------------------------------------------ the batcher on its own
\* Every resolved model with mirrored and unmirrored instances.
SignedModels == SeqsUpTo(SignedInstances, MaxInstances)

\* A scene of the catalogue right after a successful initScene: any model,
\* either variant, any setting of the cull, chamfer, edge and wireframe
\* toggles, with or without the part filter on part 0.
DrawInit ==
  /\ pc = "running"
  /\ parts = CatalogueRegistry
  /\ m_modelFilename = TRUE
  /\ m_loaderCreateInfo = [renderpartBuildMode |-> TRUE, partFixMode |-> FALSE]
  /\ m_loaderCreateInfoLast = m_loaderCreateInfo
  /\ \E cull \in BOOLEAN, drp \in BOOLEAN, chamfered \in BOOLEAN,
        edges \in BOOLEAN, wireframe \in BOOLEAN, part \in {-1, 0} :
       m_tweak = [DefaultTweak EXCEPT !.cull = cull, !.drawRenderPart = drp,
                                      !.chamfered = chamfered, !.edges = edges,
                                      !.optional = edges, !.wireframe = wireframe,
                                      !.part = part]
  /\ m_tweakLast = m_tweak
  /\ \E instances \in SignedModels :
       m_scene = [EmptyScene EXCEPT
                    !.model = [loaded |-> TRUE, instances |-> instances],
                    !.renderModel = m_loaderCreateInfo.renderpartBuildMode]
  /\ gl = [uploads |-> << >>, draws |-> << >>]
  /\ hist = LoadedHistory
  /\ load = NoLoad

SpecDraw == DrawInit /\ [][SceneNext]_vars

\* ---------------------------------------------- the debug selection alone
\* What the InputInt widgets are set to: below none, none, the first element
\* and one past every count of the catalogue.
InputValues == {-2, -1, 0, 7}

\* What a read past the end of the instance array may yield as a part id.
StrayReads == {LDR_INVALID_ID, 0, 7}

\* The models of the selection: the empty one and the one that places the
\* parts in turn from the last registered part downwards.
SelectModels ==
  {<< >>, [k \in 1 .. MaxInstances |-> [part |-> (NumParts - k) % NumParts, det |-> 1]]}

\* The state the constructor leaves for a named file and render parts built.
Constructed ==
  [pc |-> "constructed", parts |-> CatalogueRegistry, m_modelFilename |-> TRUE,
   m_loaderCreateInfo |-> [renderpartBuildMode |-> TRUE, partFixMode |-> FALSE],
   m_loaderCreateInfoLast |-> [renderpartBuildMode |-> FALSE, partFixMode |-> FALSE],
   m_tweak |-> DefaultTweak, m_tweakLast |-> DefaultTweak, m_scene |-> EmptyScene,
   gl |-> [uploads |-> << >>, draws |-> << >>], hist |-> NoHistory,
   load |-> NoLoad]

\* The state after a successful begin on one of the models.
SelectInit ==
  \E instances \in SelectModels :
    Is(BeginOf(Constructed, TRUE, "ok", instances))

\* A frame of think in which the user sets one selection widget or flips the
\* variant: processUI, the rebuild the change calls for, the draw.
SelectFrame ==
  /\ pc = "running"
  /\ \E ui \in SelectionWidgets \cup {"drawRenderPart"} :
     \E value \in (IF ui \in SelectionWidgets THEN InputValues ELSE {-1}),
        stray \in (IF m_scene.model.instances = << >> THEN StrayReads
                   ELSE {LDR_INVALID_ID}) :
       /\ UIShown(State, ui)
       /\ Becomes(DrawAndSnapshot(
            Revalidate(ProcessUI(StartHandler(State), ui, "ok", << >>, value, stray),
                       "ok", << >>),
            ZeroDrawPart))

SpecSelect == SelectInit /\ [][SelectFrame]_vars

\* ------------------------------------------------------ the threaded load
\* Largest number of parts registered when the threaded load starts.
MaxLoadParts == 4
\* Largest value of std::thread::hardware_concurrency().
MaxThreads == 3

\* What ldrLoadDeferredParts may return: the two results initScene accepts
\* and an error.
LdrResults == {"LDR_SUCCESS", "LDR_WARNING_PART_NOT_FOUND", "LDR_ERROR"}

\* Line 306.
Accepted(result) == result \in {"LDR_SUCCESS", "LDR_WARNING_PART_NOT_FOUND"}

\* A faulty slice size, which C19 must tell from the code's: the quotient
\* rounded down.
PerThreadRoundedDown(numParts, numThreads) == numParts \div numThreads

\* Line 286: perThread.
PerThread(numParts, numThreads) == (numParts + numThreads - 1) \div numThreads

\* Line 294: offset of worker idx.
SliceOffset(l, idx) == idx * PerThread(l.numParts, l.numThreads)

\* Line 295: numLocal of worker idx.
NumLocal(l, idx) ==
  LET perThread == PerThread(l.numParts, l.numThreads)
      offset == SliceOffset(l, idx)
  IN IF offset > l.numParts THEN 0
     ELSE IF perThread <= l.numParts - offset THEN perThread
     ELSE l.numParts - offset

\* Lines 272-291: initScene with m_tweak.threadedLoad set, after an accepted
\* ldrCreateModel: numParts parts registered, numThreads workers to start,
\* partIds and errors value-initialised, the thread objects empty.
LoadInit ==
  \E numParts \in 0 .. MaxLoadParts, numThreads \in 1 .. MaxThreads :
    Is([Constructed EXCEPT
          !.m_tweak.threadedLoad = TRUE,
          !.hist.calls = <<"initScene">>,
          !.hist.loader = "live",
          !.load = [NoLoad EXCEPT
                      !.phase = "starting",
                      !.numParts = numParts,
                      !.numThreads = numThreads,
                      !.partIds = [k \in 1 .. numParts |-> 0],
                      !.errors = [k \in 1 .. numThreads |-> "LDR_SUCCESS"],
                      !.threads = [k \in 1 .. numThreads |-> "empty"]]])

\* Lines 292-303: the main thread starts worker i.
StartThread ==
  /\ load.phase = "starting"
  /\ LET started == [load EXCEPT !.threads[load.i + 1] = "running", !.i = @ + 1]
     IN Becomes([State EXCEPT
          !.load = IF started.i = load.numThreads
                   THEN [started EXCEPT !.phase = "joining", !.i = 0]
                   ELSE started])

\* Lines 293-301: the body of worker idx, with what ldrLoadDeferredParts
\* returns.  writes notes each element the worker stores to.
WorkerRun(idx) ==
  /\ load.phase \in {"starting", "joining"}
  /\ load.threads[idx + 1] = "running"
  /\ LET offset == SliceOffset(load, idx)
         numLocal == NumLocal(load, idx)
         slice == {offset + p : p \in 0 .. (numLocal - 1)}
     IN \E result \in (IF numLocal > 0 THEN LdrResults ELSE {"LDR_SUCCESS"}) :
          Becomes([State EXCEPT
            !.load.partIds = [k \in DOMAIN @ |-> IF k - 1 \in slice THEN k - 1 ELSE @[k]],
            !.load.errors[idx + 1] = IF numLocal > 0 THEN result ELSE @,
            !.load.writes = @ \cup {[worker |-> idx, array |-> "partIds", index |-> k] : k \in slice}
                              \cup (IF numLocal > 0
                                    THEN {[worker |-> idx, array |-> "errors", index |-> idx]}
                                    ELSE {}),
            !.load.threads[idx + 1] = "finished"])

\* Lines 304-310: the main thread joins worker i, which blocks until the
\* worker has finished, and returns false on an error it reported; the
\* vector of threads is destroyed on return with its other threads as they
\* are.
Join ==
  /\ load.phase = "joining"
  /\ load.i < load.numThreads
  /\ load.threads[load.i + 1] = "finished"
  /\ LET joined == [load EXCEPT !.threads[load.i + 1] = "joined"]
     IN IF Accepted(load.errors[load.i + 1])
        THEN Becomes([State EXCEPT !.load = [joined EXCEPT !.i = @ + 1]])
        ELSE Becomes([State EXCEPT
               !.hist.lastLoad = "failed",
               !.load = [joined EXCEPT
                           !.phase = "returned",
                           !.result = FALSE,
                           !.destroyedJoinable =
                              {k \in 0 .. (load.numThreads - 1) :
                                 joined.threads[k + 1] \in {"running", "finished"}}]])

\* Lines 311-348: ldrResolveModel once the join loop has ended, then the
\* rest of initScene as without threads.
Resolve ==
  /\ load.phase = "joining"
  /\ load.i = load.numThreads
  /\ \E outcome \in {"ok", "createRenderModelFailed"}, instances \in FileModels :
       LET done == InitScene([State EXCEPT !.hist.calls = << >>], outcome, instances)
       IN Becomes([done.state EXCEPT
            !.load.phase = "returned",
            !.load.resolved = TRUE,
            !.load.result = done.result,
            !.load.destroyedJoinable =
               {k \in 0 .. (load.numThreads - 1) :
                  load.threads[k + 1] \in {"running", "finished"}}])

\* Some started worker runs to its end.
Work == \E idx \in 0 .. (load.numThreads - 1) : WorkerRun(idx)

LoadNext == StartThread \/ Work \/ Join \/ Resolve

SpecLoad == LoadInit /\ [][LoadNext]_vars

\* ================================================================ claims
\* What the claims speak of, stated apart from the code's own bookkeeping.

\* The part ids that some instance of the model references with a valid id.
ReferencedParts ==
  {i \in PartIds :
     \E k \in DOMAIN m_scene.model.instances : m_scene.model.instances[k].part = i}

RECURSIVE Sum(_, _)
Sum(f, S) ==
  IF S = {} THEN 0
  ELSE LET x == CHOOSE y \in S : TRUE IN f[x] + Sum(f, S \ {x})

\* The region sizes of part i in the table.
IndexSize(i) ==
  LET d == m_scene.drawParts[i]
  IN 3 * d.triangleCount + 2 * d.edgesCount + 2 * d.optionalCount + 3 * d.triangleCountC

\* The sizes of the two material-id sub-regions of part i in the variant the
\* last pass used: the triangle count if the part has the complex-material
\* flag and the material array is not null, else 0.
PrimaryMaterialSize(i) ==
  LET d == m_scene.drawParts[i]
      part == GetPart(State, i)
      rpart == GetRenderPart(State, i)
  IN IF ~hist.build.drawRenderPart
     THEN (IF part.hasComplexMaterial /\ part.triangleMaterials THEN d.triangleCount ELSE 0)
     ELSE (IF rpart.present /\ rpart.hasComplexMaterial /\ rpart.triangleMaterials
           THEN d.triangleCount ELSE 0)

ChamferedMaterialSize(i) ==
  LET d == m_scene.drawParts[i]
      rpart == GetRenderPart(State, i)
  IN IF hist.build.drawRenderPart /\ rpart.present /\ rpart.hasComplexMaterial
        /\ rpart.materialsC
     THEN d.triangleCountC ELSE 0

\* C1: after a pass, the vertex total (the size of the vertex buffer) is the
\* sum over the active parts of vertexCount, and the index total (the size of
\* the index buffer) is the sum over the active parts of
\* 3*triangleCount + 2*edgesCount + 2*optionalCount + 3*triangleCountC.
C1_TotalsAreSums ==
  hist.build.valid =>
    /\ hist.build.vbo = Sum([i \in PartIds |-> m_scene.drawParts[i].vertexCount], ReferencedParts)
    /\ m_scene.vertexBuffer = hist.build.vbo
    /\ hist.build.ibo = Sum([i \in PartIds |-> IndexSize(i)], ReferencedParts)
    /\ m_scene.indexBuffer = hist.build.ibo

\* C1 witness: a pass over the render variant with two active parts, one of
\* them with chamfered triangles, and a pass over the source variant's
\* optional lines is the same state space's other half.
C1_Witness ==
  /\ hist.build.valid
  /\ hist.build.drawRenderPart
  /\ Cardinality(ReferencedParts) >= 2
  /\ \E i \in ReferencedParts : m_scene.drawParts[i].triangleCountC > 0
  /\ \A i \in ReferencedParts : m_scene.drawParts[i].vertexCount > 0

\* C2 (as claimed): after a pass, the material-id total (the size of the
\* material-id buffer) is the sum over the active parts of the sizes of their
\* primary and chamfered material-id sub-regions.
C2_MaterialTotalIsSum ==
  hist.build.valid =>
    /\ hist.build.mtl =
         Sum([i \in PartIds |-> PrimaryMaterialSize(i) + ChamferedMaterialSize(i)],
             ReferencedParts)
    /\ m_scene.materialIndexBuffer = hist.build.mtl

\* A range of a shared buffer.
Range(start, len) == [start |-> start, len |-> len]

Disjoint(r, q) ==
  \/ r.len = 0
  \/ q.len = 0
  \/ r.start + r.len <= q.start
  \/ q.start + q.len <= r.start

\* The four index sub-ranges and the two material-id sub-regions of part i.
IndexRanges(i) ==
  LET d == m_scene.drawParts[i]
  IN [triangles |-> Range(d.triangleOffset, 3 * d.triangleCount),
      edges |-> Range(d.edgesOffset, 2 * d.edgesCount),
      optional |-> Range(d.optionalOffset, 2 * d.optionalCount),
      trianglesC |-> Range(d.triangleOffsetC, 3 * d.triangleCountC)]

MaterialRanges(i) ==
  LET d == m_scene.drawParts[i]
  IN [primary |-> Range(d.materialIDOffset, PrimaryMaterialSize(i)),
      chamfered |-> Range(d.materialIDOffsetC, ChamferedMaterialSize(i))]

PairwiseDisjoint(ranges) ==
  \A i \in ReferencedParts, j \in ReferencedParts :
    \A f \in DOMAIN ranges[i], g \in DOMAIN ranges[j] :
      (i # j \/ f # g) => Disjoint(ranges[i][f], ranges[j][g])

\* C3: after a pass, the vertex ranges of two distinct active parts are
\* disjoint, all index sub-ranges of all active parts are pairwise disjoint,
\* and so are all their material-id sub-regions.
C3_RegionsDisjoint ==
  hist.build.valid =>
    /\ \A i \in ReferencedParts, j \in ReferencedParts :
         i # j => Disjoint(Range(m_scene.drawParts[i].vertexOffset, m_scene.drawParts[i].vertexCount),
                           Range(m_scene.drawParts[j].vertexOffset, m_scene.drawParts[j].vertexCount))
    /\ PairwiseDisjoint([i \in PartIds |-> IndexRanges(i)])
    /\ PairwiseDisjoint([i \in PartIds |-> MaterialRanges(i)])

\* C3 witness: two active parts of the render variant, each with vertices,
\* triangles, edges, chamfered triangles and both material sub-regions.
C3_Witness ==
  /\ hist.build.valid
  /\ \E i \in ReferencedParts, j \in ReferencedParts :
       /\ i # j
       /\ \A p \in {i, j} :
            /\ m_scene.drawParts[p].vertexCount > 0
            /\ \A f \in {"triangles", "edges", "trianglesC"} : IndexRanges(p)[f].len > 0
            /\ MaterialRanges(p).primary.len > 0
            /\ MaterialRanges(p).chamfered.len > 0

\* C4: offsets are assigned in ascending part-id order and in the fixed
\* field order: within a part edges follow the triangles, optional lines the
\* edges, chamfered triangles the optional lines; the first active part
\* starts at vertex 0 and index 0; of two consecutive active ids the later
\* starts where the earlier ends; and the primary material sub-region ends
\* no later than the chamfered one starts.
C4_FieldOrder ==
  hist.build.valid =>
    /\ \A i \in ReferencedParts :
         LET d == m_scene.drawParts[i] IN
         /\ d.edgesOffset = d.triangleOffset + 3 * d.triangleCount
         /\ d.optionalOffset = d.edgesOffset + 2 * d.edgesCount
         /\ d.triangleOffsetC = d.optionalOffset + 2 * d.optionalCount
         /\ d.materialIDOffset + PrimaryMaterialSize(i) <= d.materialIDOffsetC
         /\ (\A j \in ReferencedParts : i <= j) =>
              d.vertexOffset = 0 /\ d.triangleOffset = 0
    /\ \A a \in ReferencedParts, b \in ReferencedParts :
         (a < b /\ ~\E c \in ReferencedParts : a < c /\ c < b) =>
           /\ m_scene.drawParts[b].vertexOffset =
                m_scene.drawParts[a].vertexOffset + m_scene.drawParts[a].vertexCount
           /\ m_scene.drawParts[b].triangleOffset =
                m_scene.drawParts[a].triangleOffsetC + 3 * m_scene.drawParts[a].triangleCountC

\* C4 witness: the source variant, the first and the last part id active and
\* the one between them not, the first with edges and optional lines.
C4_Witness ==
  /\ hist.build.valid
  /\ ~hist.build.drawRenderPart
  /\ ReferencedParts = {0, NumParts - 1}
  /\ m_scene.drawParts[0].edgesCount > 0
  /\ m_scene.drawParts[0].optionalCount > 0
  /\ m_scene.drawParts[NumParts - 1].vertexOffset > 0

\* TRUE of a step that is one call of rebuildSceneBuffers which ran its pass.
LonePass ==
  hist'.calls = <<"rebuildSceneBuffers", "select", "plan", "materialize">>

\* C5: a pass over a scene that the pass before it left, with the model, the
\* registry, the loader and the tweak state unchanged, leaves the DrawPart
\* table, the three totals and the upload sequence exactly as they were.
C5_RebuildIdempotent ==
  [][(/\ hist.build.valid
      /\ LonePass
      /\ m_scene'.model = m_scene.model
      /\ parts' = parts
      /\ m_loaderCreateInfoLast' = m_loaderCreateInfoLast
      /\ m_tweak' = m_tweak)
     => /\ m_scene'.drawParts = m_scene.drawParts
        /\ m_scene'.vertexBuffer = m_scene.vertexBuffer
        /\ m_scene'.indexBuffer = m_scene.indexBuffer
        /\ m_scene'.materialIndexBuffer = m_scene.materialIndexBuffer
        /\ gl'.uploads = gl.uploads
        /\ hist'.build = hist.build]_vars

\* C5 witness: a second pass in succession has run over a scene with two
\* active parts and material ids to upload.
C5_Witness ==
  /\ hist.passes = 2
  /\ hist.calls = <<"rebuildSceneBuffers", "select", "plan", "materialize">>
  /\ Cardinality(ReferencedParts) >= 2
  /\ m_scene.materialIndexBuffer > 0
  /\ Len(gl.uploads) > 4

\* C6: the selector marks a part id active iff some instance references it
\* with a valid id; instances with LDR_INVALID_ID mark nothing (not id 0); and
\* a model without instances gives an all-false set and three totals of 0.
C6_ActiveIffReferenced ==
  hist.build.valid =>
    /\ DOMAIN hist.build.activeParts = PartIds
    /\ \A i \in PartIds : hist.build.activeParts[i] <=> i \in ReferencedParts
    /\ (\A k \in DOMAIN m_scene.model.instances :
          m_scene.model.instances[k].part = LDR_INVALID_ID)
         => /\ \A i \in PartIds : ~hist.build.activeParts[i]
            /\ m_scene.vertexBuffer = 0
            /\ m_scene.indexBuffer = 0
            /\ m_scene.materialIndexBuffer = 0

\* C6 witness: a pass over a model that has an instance with the invalid id
\* and an instance of a part other than 0.
C6_Witness ==
  /\ hist.build.valid
  /\ \E k \in DOMAIN m_scene.model.instances :
       m_scene.model.instances[k].part = LDR_INVALID_ID
  /\ ReferencedParts # {}
  /\ 0 \notin ReferencedParts
  /\ ~hist.build.activeParts[0]

\* TRUE iff call a occurs in the handler's trace before call b.
CalledBefore(a, b) ==
  \E i \in DOMAIN hist.calls, j \in DOMAIN hist.calls :
    i < j /\ hist.calls[i] = a /\ hist.calls[j] = b

\* TRUE iff a whole pass (selector, planner, materializer, in that order) is
\* in the handler's trace before drawDebug.
PassBeforeDraw ==
  \E i \in DOMAIN hist.calls, j \in DOMAIN hist.calls :
    /\ i + 3 < j
    /\ hist.calls[i] = "rebuildSceneBuffers"
    /\ hist.calls[i + 1] = "select"
    /\ hist.calls[i + 2] = "plan"
    /\ hist.calls[i + 3] = "materialize"
    /\ hist.calls[j] = "drawDebug"

\* C7 (as claimed, for scenes whose last load succeeded and whose model
\* references a part): whenever drawDebug has run in a handler with a loaded
\* model, the DrawPart table and the buffers come from a pass that used the
\* current value of m_tweak.drawRenderPart and the current loader
\* configuration.
C7_DrawOnCurrentLayout ==
  (hist.drewModel /\ hist.lastLoad = "ok" /\ ReferencedParts # {}) =>
    /\ hist.build.valid
    /\ hist.build.drawRenderPart = m_tweak.drawRenderPart
    /\ hist.build.createInfo = m_loaderCreateInfo

\* C8: in a frame that reaches the draw step, if at line 693 the loader
\* configuration differs from its snapshot, or at line 703 the render-part
\* toggle or the chamfer toggle differs from the snapshot of the frame before,
\* then rebuildSceneBuffers runs before drawDebug in that frame (selector,
\* planner, materializer in that order when a model is loaded), and at the end
\* of the frame both snapshots equal the current values.
C8_DirtyFrameRebuilds ==
  (/\ hist.frame.reachedDraw
   /\ \/ hist.frame.createInfoDiffers
      \/ hist.frame.drawRenderPartDiffers
      \/ hist.frame.chamferedDiffers)
  => /\ CalledBefore("rebuildSceneBuffers", "drawDebug")
     /\ m_scene.model.loaded => PassBeforeDraw
     /\ m_tweakLast = m_tweak
     /\ m_loaderCreateInfoLast = m_loaderCreateInfo

\* C8 witness: a frame in which only the chamfer toggle differed has rebuilt
\* the scene of a loaded model and drawn it.
C8_Witness ==
  /\ hist.frame.reachedDraw
  /\ hist.frame.chamferedDiffers
  /\ ~hist.frame.createInfoDiffers
  /\ ~hist.frame.drawRenderPartDiffers
  /\ m_scene.model.loaded
  /\ Len(m_scene.model.instances) > 0
  /\ PassBeforeDraw
  /\ hist.drewModel

\* C9 (as claimed, for the models that reference a part): after a load that
\* failed (initScene returned false) no pass has laid out or uploaded
\* anything.
C9_NoBuildAfterFailedLoad ==
  (hist.lastLoad = "failed" /\ ReferencedParts # {}) =>
    /\ ~hist.builtSinceLoad
    /\ gl.uploads = << >>

\* The active parts for which the loader has no render geometry.
PartsWithoutRenderPart ==
  {i \in ReferencedParts : ~GetRenderPart(State, i).present}

\* TRUE iff the record d of the GL trace is a triangle, edge or wireframe
\* draw of part i.
IsGeometryDraw(d, i) ==
  /\ d.op = "draw"
  /\ d.part = i
  /\ d.kind \in {"triangles", "edges", "wireframe"}

\* C10: with the render variant selected, an active part without render
\* geometry gets a region whose five counts are 0 and whose two material
\* sub-regions are empty, nothing is uploaded for it, every other active part
\* is laid out with the counts of its render geometry and uploaded, and
\* drawDebug issues no triangle, edge or wireframe draw for its instances.
C10_AbsentRenderPart ==
  (hist.build.valid /\ hist.build.drawRenderPart /\ m_tweak.drawRenderPart) =>
    /\ \A i \in PartsWithoutRenderPart :
         LET d == m_scene.drawParts[i] IN
         /\ d.vertexCount = 0 /\ d.triangleCount = 0 /\ d.edgesCount = 0
         /\ d.optionalCount = 0 /\ d.triangleCountC = 0
         /\ hist.build.counts[i].materialIndexCount = 0
         /\ hist.build.counts[i].materialIndexCountC = 0
         /\ d.materialIDOffsetC = d.materialIDOffset
         /\ \A u \in DOMAIN gl.uploads : gl.uploads[u].part # i
         /\ \A k \in DOMAIN gl.draws : ~IsGeometryDraw(gl.draws[k], i)
    /\ \A j \in ReferencedParts \ PartsWithoutRenderPart :
         LET d == m_scene.drawParts[j]
             rpart == GetRenderPart(State, j)
         IN /\ d.vertexCount = rpart.numVertices
            /\ d.triangleCount = rpart.numTriangles
            /\ d.edgesCount = rpart.numLines
            /\ d.triangleCountC = rpart.numTrianglesC
            /\ \E u \in DOMAIN gl.uploads :
                 gl.uploads[u] = Upload("vertex", d.vertexOffset, rpart.numVertices,
                                        j, "vertices")
            /\ \E u \in DOMAIN gl.uploads :
                 gl.uploads[u] = Upload("index", d.triangleOffset, rpart.numTriangles * 3,
                                        j, "triangles")

\* C10 witness: drawDebug has run over a render-variant layout of a model
\* with an instance of a part without render geometry, placed before an
\* instance of a part with it, whose triangles were drawn.
C10_Witness ==
  /\ hist.build.valid /\ hist.build.drawRenderPart /\ m_tweak.drawRenderPart
  /\ Len(m_scene.model.instances) = 2
  /\ m_scene.model.instances[1].part \in PartsWithoutRenderPart
  /\ m_scene.model.instances[2].part \in ReferencedParts \ PartsWithoutRenderPart
  /\ m_scene.model.instances[1].part < m_scene.model.instances[2].part
  /\ \E k \in DOMAIN gl.draws :
       IsGeometryDraw(gl.draws[k], m_scene.model.instances[2].part)
  /\ \E k \in DOMAIN gl.draws :
       gl.draws[k] = [op |-> "glBufferSubData(objectBuffer)", instance |-> 0]

\* ----------------------------------------------- the GL state of a pass
\* The state a GL context has when drawDebug is entered, as far as its own
\* epilogue leaves it; what it does not reset is not known (0, "unknown").
EntryGLState ==
  [cull |-> FALSE, frontFace |-> "unknown", lineWidth |-> 0,
   polygonMode |-> "GL_FILL", blend |-> "unknown"]

\* The GL state once the first n calls of the pass's trace have executed.
RECURSIVE GLStateAfter(_)
GLStateAfter(n) ==
  IF n = 0 THEN EntryGLState
  ELSE LET before == GLStateAfter(n - 1)
           c == gl.draws[n]
       IN CASE c.op = "glEnable(GL_CULL_FACE)" -> [before EXCEPT !.cull = TRUE]
            [] c.op = "glDisable(GL_CULL_FACE)" -> [before EXCEPT !.cull = FALSE]
            [] c.op = "glEnable(GL_BLEND)" -> [before EXCEPT !.blend = "enabled"]
            [] c.op = "glDisable(GL_BLEND)" -> [before EXCEPT !.blend = "disabled"]
            [] c.op = "glFrontFace" -> [before EXCEPT !.frontFace = c.value]
            [] c.op = "glLineWidth" -> [before EXCEPT !.lineWidth = c.value]
            [] c.op = "glPolygonMode" -> [before EXCEPT !.polygonMode = c.value]
            [] OTHER -> before

\* The positions of the trace that hold a draw call.
DrawPositions == {n \in DOMAIN gl.draws : gl.draws[n].op = "draw"}

\* The instance (record) a call of the trace was issued for.
InstanceOf(c) == m_scene.model.instances[c.instance + 1]

\* C13: at every draw of an instance the front face in effect is GL_CCW if
\* the determinant of the instance's transform is positive and GL_CW if it
\* is negative, whatever the signs of the instances before it.
C13_FrontFaceMatchesDeterminant ==
  \A n \in DrawPositions :
    LET det == InstanceOf(gl.draws[n]).det
        frontFace == GLStateAfter(n - 1).frontFace
    IN /\ det > 0 => frontFace = "GL_CCW"
       /\ det < 0 => frontFace = "GL_CW"

\* C13 witness: a pass has drawn a mirrored instance and then an unmirrored
\* one.
C13_Witness ==
  /\ Len(m_scene.model.instances) >= 2
  /\ m_scene.model.instances[1].det < 0
  /\ m_scene.model.instances[2].det > 0
  /\ \E n \in DrawPositions, q \in DrawPositions :
       n < q /\ gl.draws[n].instance = 0 /\ gl.draws[q].instance = 1

\* C14: at every draw of an instance face culling is disabled if the part
\* has the no-back-face-culling flag or the cull toggle is off, and enabled
\* otherwise.  (The tracked cullFace flag is assigned this wanted value at
\* line 993, so it equals the GL state exactly when the GL state is the
\* wanted one.)
C14_CullMatchesPart ==
  \A n \in DrawPositions :
    LET part == parts[gl.draws[n].part]
        disabled == part.hasNoBackFaceCulling \/ ~m_tweak.cull
    IN GLStateAfter(n - 1).cull = ~disabled

\* C14 witness: with the cull toggle on, a pass has drawn an instance of a
\* part with the no-back-face-culling flag and then one of a part without.
C14_Witness ==
  /\ m_tweak.cull
  /\ \E n \in DrawPositions, q \in DrawPositions :
       /\ n < q
       /\ parts[gl.draws[n].part].hasNoBackFaceCulling
       /\ ~parts[gl.draws[q].part].hasNoBackFaceCulling

\* The positions of the trace that hold a cull or a front-face call of an
\* instance.
CullPositions ==
  {n \in DOMAIN gl.draws :
     /\ gl.draws[n].instance >= 0
     /\ gl.draws[n].op \in {"glEnable(GL_CULL_FACE)", "glDisable(GL_CULL_FACE)"}}

FrontFacePositions ==
  {n \in DOMAIN gl.draws :
     gl.draws[n].instance >= 0 /\ gl.draws[n].op = "glFrontFace"}

\* The 0-based indices of the instances the filter of lines 969-973 skips.
SkippedInstances ==
  {i \in 0 .. (Len(m_scene.model.instances) - 1) :
     LET id == m_scene.model.instances[i + 1].part
     IN \/ m_tweak.instance >= 0 /\ i # m_tweak.instance
        \/ id \notin PartIds
        \/ m_tweak.part >= 0 /\ id # m_tweak.part}

\* C15: within a pass a cull call or a front-face call of an instance
\* changes the state in effect (the one the instance drawn before it left,
\* or the enabled / GL_CCW state of the prologue), and no call at all is
\* issued for an instance the filter skips.
C15_NoRedundantCullOrWinding ==
  /\ \A n \in CullPositions :
       GLStateAfter(n - 1).cull # GLStateAfter(n).cull
  /\ \A n \in FrontFacePositions :
       GLStateAfter(n - 1).frontFace # GLStateAfter(n).frontFace
  /\ \A n \in DOMAIN gl.draws : gl.draws[n].instance \notin SkippedInstances

\* C15 witness: a pass has drawn two instances with the same culling and
\* winding, neither of them the prologue's: one cull call and one
\* front-face call served both.
C15_Witness ==
  /\ Len(m_scene.model.instances) >= 2
  /\ LET first == m_scene.model.instances[1]
         second == m_scene.model.instances[2]
     IN /\ first.part \in PartIds /\ second.part \in PartIds
        /\ first.det < 0 /\ second.det < 0
        /\ ~m_tweak.cull
  /\ \E n \in DrawPositions, q \in DrawPositions :
       gl.draws[n].instance = 0 /\ gl.draws[q].instance = 1
  /\ Cardinality(CullPositions) = 1
  /\ Cardinality(FrontFacePositions) = 1

\* The positions of the trace that hold a line-width, polygon-mode or blend
\* call issued inside the instance loop.
LineStatePositions ==
  {n \in DOMAIN gl.draws :
     /\ gl.draws[n].instance >= 0
     /\ gl.draws[n].op \in {"glLineWidth", "glPolygonMode",
                             "glEnable(GL_BLEND)", "glDisable(GL_BLEND)"}}

\* C16 (as claimed): within a pass every line-width, polygon-mode or blend
\* call of an instance sets a value other than the one in effect.
C16_NoRedundantLineState ==
  \A n \in LineStatePositions : GLStateAfter(n - 1) # GLStateAfter(n)

\* The triangle draws of the trace.
TrianglePositions == {n \in DrawPositions : gl.draws[n].kind = "triangles"}

\* C17: in the render variant the triangle draw of an instance uses the
\* chamfered range, count and material offset iff the chamfer toggle is on
\* and the part can chamfer, and the primary ones otherwise; in the source
\* variant it uses the primary range and the source part's count.
C17_ChamferChoice ==
  (hist.build.valid /\ hist.build.drawRenderPart = m_tweak.drawRenderPart) =>
    \A n \in TrianglePositions :
      LET d == gl.draws[n]
          region == m_scene.drawParts[d.part]
          part == parts[d.part]
          rpart == part.rpart
      IN IF ~m_tweak.drawRenderPart
         THEN /\ d.first = region.triangleOffset
              /\ d.count = 3 * part.numTriangles
              /\ d.materialIDOffset \in {region.materialIDOffset, NoMaterialIDOffset}
         ELSE IF m_tweak.chamfered /\ rpart.canChamfer
         THEN /\ d.first = region.triangleOffsetC
              /\ d.count = 3 * rpart.numTrianglesC
              /\ d.materialIDOffset \in {region.materialIDOffsetC, NoMaterialIDOffset}
              /\ (rpart.materialsC /\ rpart.hasComplexMaterial)
                   => d.materialIDOffset = region.materialIDOffsetC
         ELSE /\ d.first = region.triangleOffset
              /\ d.count = 3 * rpart.numTriangles
              /\ d.materialIDOffset \in {region.materialIDOffset, NoMaterialIDOffset}
              /\ (rpart.triangleMaterials /\ rpart.hasComplexMaterial)
                   => d.materialIDOffset = region.materialIDOffset

\* C17 witness: with the chamfer toggle on, a pass over the render variant
\* has drawn the chamfered triangles of a part that can chamfer and the
\* primary triangles of a part that cannot, both with per-triangle
\* materials, at different offsets.
C17_Witness ==
  /\ hist.build.valid /\ hist.build.drawRenderPart
  /\ m_tweak.drawRenderPart /\ m_tweak.chamfered
  /\ \E n \in TrianglePositions, q \in TrianglePositions :
       LET can == gl.draws[n]
           cannot == gl.draws[q]
       IN /\ parts[can.part].rpart.canChamfer
          /\ ~parts[cannot.part].rpart.canChamfer
          /\ can.first = m_scene.drawParts[can.part].triangleOffsetC
          /\ can.first # m_scene.drawParts[can.part].triangleOffset
          /\ can.materialIDOffset # NoMaterialIDOffset
          /\ cannot.first = m_scene.drawParts[cannot.part].triangleOffset
          /\ cannot.first # m_scene.drawParts[cannot.part].triangleOffsetC
          /\ cannot.materialIDOffset # NoMaterialIDOffset
          /\ cannot.materialIDOffset # m_scene.drawParts[cannot.part].materialIDOffsetC

\* The 0-based indices of the instances of part p.
InstancesOfPart(p) ==
  {i \in 0 .. (Len(m_scene.model.instances) - 1) :
     m_scene.model.instances[i + 1].part = p}

\* TRUE iff the selected variant has geometry for part p.
HasGeometry(p) == ~hist.build.drawRenderPart \/ GetRenderPart(State, p).present

SelectionPositions ==
  {n \in DrawPositions :
     gl.draws[n].kind \in {"selected_vertex", "selected_tri", "selected_edge"}}

\* TRUE iff the elements draw d reads lie in the region of its part: the
\* vertex of a point among the part's vertices, the indices of a triangle
\* outline among its triangle indices, those of an edge among its line
\* indices.
ReadsOwnRegion(d) ==
  LET region == m_scene.drawParts[d.part]
  IN CASE d.kind = "selected_vertex" ->
            /\ region.vertexOffset <= d.first
            /\ d.first + d.count <= region.vertexOffset + region.vertexCount
       [] d.kind = "selected_tri" ->
            /\ region.triangleOffset <= d.first
            /\ d.first + d.count <= region.triangleOffset + region.triangleCount
       [] d.kind = "selected_edge" ->
            /\ region.edgesOffset <= d.first
            /\ d.first + d.count <= region.edgesOffset + region.edgesCount
       [] OTHER -> TRUE

\* C11 (as claimed): in the render variant, no debug-selection draw of an
\* instance whose part has no render part reads vertex or index elements
\* outside the part's own, empty, region.
C11_SelectionDrawsAreNoOps ==
  (hist.build.valid /\ hist.build.drawRenderPart /\ m_tweak.drawRenderPart) =>
    \A n \in SelectionPositions :
      ~parts[gl.draws[n].part].rpart.present => ReadsOwnRegion(gl.draws[n])

\* The number of elements of part p in the selected variant.
SelectedCount(p, renderCount, sourceCount) ==
  IF m_scene.renderModel /\ m_tweak.drawRenderPart
  THEN parts[p].rpart[renderCount] ELSE parts[p][sourceCount]

\* C12 (as claimed): after a frame's processUI every selection index that is
\* not none is valid: the instance below the number of instances, the part
\* below the number of registered parts, and the triangle, edge and vertex of
\* a selected part below that part's count in the selected variant.
C12_SelectionIsValid ==
  (pc = "running" /\ m_scene.model.loaded) =>
    /\ m_tweak.instance >= 0 => m_tweak.instance < Len(m_scene.model.instances)
    /\ m_tweak.part >= 0 => m_tweak.part < NumParts
    /\ m_tweak.part \in PartIds =>
         /\ m_tweak.tri >= 0 =>
              m_tweak.tri < SelectedCount(m_tweak.part, "numTriangles", "numTriangles")
         /\ m_tweak.edge >= 0 =>
              m_tweak.edge < SelectedCount(m_tweak.part, "numLines", "numLines")
         /\ m_tweak.vertex >= 0 =>
              m_tweak.vertex < SelectedCount(m_tweak.part, "numVertices", "numPositions")

\* The slice of worker idx: [idx*perThread, idx*perThread + numLocal).
Slice(idx) ==
  {k \in 0 .. (load.numParts - 1) :
     /\ SliceOffset(load, idx) <= k
     /\ k < SliceOffset(load, idx) + NumLocal(load, idx)}

Workers == 0 .. (load.numThreads - 1)

\* C19: in a threaded load the workers' slices are pairwise disjoint, follow
\* each other without gap (each non-empty slice starts where the slices of
\* the workers before it end) and together hold every part id below the
\* part count; a worker stores only to its slice of partIds and to its own
\* slot of errors, and once it has run every id of its slice is in place;
\* and ldrResolveModel has been called only with every worker joined.
C19_SlicesPartitionAndResolveLast ==
  load.phase # "idle" =>
    /\ \A a \in Workers, b \in Workers : a # b => Slice(a) \cap Slice(b) = {}
    /\ UNION {Slice(a) : a \in Workers} = 0 .. (load.numParts - 1)
    /\ \A a \in Workers :
         /\ NumLocal(load, a) = Cardinality(Slice(a))
         /\ Slice(a) # {} =>
              SliceOffset(load, a) = Cardinality(UNION {Slice(b) : b \in 0 .. (a - 1)})
    /\ \A w \in load.writes :
         \/ w.array = "partIds" /\ w.index \in Slice(w.worker)
         \/ w.array = "errors" /\ w.index = w.worker
    /\ \A a \in Workers :
         load.threads[a + 1] \in {"finished", "joined"} =>
           \A k \in Slice(a) :
             /\ load.partIds[k + 1] = k
             /\ [worker |-> a, array |-> "partIds", index |-> k] \in load.writes
    /\ load.resolved => \A a \in Workers : load.threads[a + 1] = "joined"

\* C19 witness: a load has resolved with three or more workers, a part count
\* they do not divide, a worker with a short slice or none, and every part
\* id written.
C19_Witness ==
  /\ load.resolved
  /\ load.numThreads >= 3
  /\ load.numParts % load.numThreads # 0
  /\ \E a \in Workers, b \in Workers :
       /\ NumLocal(load, a) > 1
       /\ NumLocal(load, b) < NumLocal(load, a)
  /\ {w.index : w \in {x \in load.writes : x.array = "partIds"}}
       = 0 .. (load.numParts - 1)

\* C20 (as claimed): when initScene's threaded load returns, no worker that
\* was started is left unjoined.
C20_AllWorkersJoinedOnReturn ==
  load.phase = "returned" => load.destroyedJoinable = {}

\* C22 (as claimed): in a drawDebug pass over a built scene, no draw and no
\* state call is issued for an instance whose part id is LDR_INVALID_ID, and
\* the DrawPart table is indexed with registered part ids only.
C22_InvalidInstanceSkipped ==
  (hist.drewModel /\ hist.build.valid) =>
    /\ \A n \in DOMAIN gl.draws :
         gl.draws[n].instance >= 0 =>
           m_scene.model.instances[gl.draws[n].instance + 1].part # LDR_INVALID_ID
    /\ \A k \in DOMAIN hist.indexed : hist.indexed[k] \in PartIds

\* The calls of the current handler that took or destroyed the loader.
HandlePositions == DOMAIN hist.handles

\* C21: a handle of the scene is only ever used or destroyed with the loader
\* that created it, and no loader is destroyed or replaced while the scene
\* holds a handle: each ldrDestroyLoader finds both handles null, and when it
\* destroys a loader deinitScene has run before it in the same handler; every
\* deinitScene, rebuild and draw finds each handle null or created by the
\* loader passed, which is live; and between handlers a model the scene
\* holds is one of the live loader.
C21_HandlesStayWithTheirLoader ==
  /\ \A n \in HandlePositions :
       LET e == hist.handles[n]
       IN IF e.op = "ldrDestroyLoader"
          THEN /\ e.model = "none" /\ e.renderModel = "none"
               /\ e.loader = "live" =>
                    \E m \in 1 .. (n - 1) : hist.handles[m].op = "deinitScene"
          ELSE /\ e.model \in {"none", "current"}
               /\ e.renderModel \in {"none", "current"}
               /\ (e.model = "current" \/ e.renderModel = "current") => e.loader = "live"
               /\ e.op = "use" => e.model = "current"
  /\ m_scene.model.loaded <=> hist.owner.model = "current"
  /\ m_scene.renderModel <=> hist.owner.renderModel = "current"
  /\ m_scene.model.loaded => hist.loader = "live"
  /\ hist.owner.model # "orphaned" /\ hist.owner.renderModel # "orphaned"

\* C21 witness: one handler has destroyed a model and a render model with
\* their loader, then that loader, and has drawn a model of the new one.
C21_Witness ==
  \E d \in HandlePositions, r \in HandlePositions, u \in HandlePositions :
    /\ d < r /\ r < u
    /\ hist.handles[d] = [op |-> "deinitScene", loader |-> "live",
                          model |-> "current", renderModel |-> "current"]
    /\ hist.handles[r] = [op |-> "ldrDestroyLoader", loader |-> "live",
                          model |-> "none", renderModel |-> "none"]
    /\ hist.handles[u].op = "use" /\ hist.handles[u].model = "current"
    /\ hist.drewModel

====
